---- MODULE Spec2Model ----
(***************************************************************************)
(* computeMatrix (deeptools/computeMatrix.py): one run of main(), from the *)
(* command line to the saved outputs.  The state is the parsed argument    *)
(* namespace, the parameter dictionary handed to the heatmapper engine,    *)
(* the engine's matrix, the output files and the sequence of engine calls. *)
(***************************************************************************)
EXTENDS Integers, Sequences, FiniteSets, TLC

VARIABLES
    argv,          \* the command line of the run (an input, never changed)
    env,           \* the world of the run: region files, failures, writability
    pc,            \* position of main()
    args,          \* the argparse namespace
    parameters,    \* the dictionary built at lines 383-401 (hm.parameters after line 406)
    built,         \* the dictionary exactly as line 383-401 built it (history)
    matrix,        \* hm.matrix: rows, group_labels, group_boundaries
    computed,      \* the matrix as heatmapper.computeMatrix left it (history)
    files,         \* state of every output target on disk
    saved,         \* rows written to each output target
    calls,         \* engine operations invoked so far, in order
    sort_args,     \* the arguments of every sort_groups call made so far
    exit_status,   \* -1 while running, else the status the process ended with
    message        \* what the run told the user when it ended

vars == <<argv, env, pc, args, parameters, built, matrix, computed, files,
          saved, calls, sort_args, exit_status, message>>

----------------------------------------------------------------------------
(* Bounds of the model *)

\* number of regions in the region files
MaxRegions == 3
\* number of score files given with -S (samples of the matrix)
NumSamples == 2

----------------------------------------------------------------------------
(* Command line *)

\* an option that is absent is <<>>, one that is given is <<value>>
Given(opt) == opt # <<>>

\* argparse's default= : the value given, else the default
Opt(opt, default) == IF Given(opt) THEN opt[1] ELSE default

Targets == {"outFileName", "outFileNameMatrix", "outFileSortedRegions"}

\* sub-commands of parse_arguments
Commands == {"scale-regions", "reference-point"}

\* defaults of computeMatrixOptArgs(case): they differ by sub-command
DefaultBefore(command) == IF command = "scale-regions" THEN 0 ELSE 500
DefaultAfter(command) == IF command = "scale-regions" THEN 0 ELSE 1500
DefaultBody(command) == IF command = "scale-regions" THEN 1000 ELSE 0
DefaultUnscaled == 0
DefaultBinSize == 10
DefaultSortRegions == "keep"
DefaultSortUsing == "mean"
DefaultReferencePoint == "TSS"

\* type=writableFile (deeptools.parserCommon): the target can be opened for writing
writableFile(target) == env.writable[target]

\* type=argparse.FileType('w'): the file is opened for writing while parsing
FileTypeW(target) == env.writable[target]

\* the targets requested on the command line (-o is required)
Requested(a) ==
    {"outFileName"}
      \cup (IF Given(a.outFileNameMatrix) THEN {"outFileNameMatrix"} ELSE {})
      \cup (IF Given(a.outFileSortedRegions) THEN {"outFileSortedRegions"} ELSE {})

\* --outFileSortedRegions taken as a plain file name, opened when it is saved
ArgumentsAccepted_LateOpen(a) ==
    /\ writableFile("outFileName")
    /\ (Given(a.outFileNameMatrix) => writableFile("outFileNameMatrix"))

\* argparse converts the options in command-line order; the first conversion
\* that raises ends the run with a usage error (status 2)
ArgumentsAccepted(a) ==
    /\ writableFile("outFileName")
    /\ (Given(a.outFileNameMatrix) => writableFile("outFileNameMatrix"))
    /\ (Given(a.outFileSortedRegions) => FileTypeW("outFileSortedRegions"))

\* the targets argparse opened with mode 'w' while parsing: every
\* FileType('w') option whose open succeeded is created or truncated
OpenedWhileParsing(a) ==
    IF Given(a.outFileSortedRegions) /\ FileTypeW("outFileSortedRegions")
    THEN {"outFileSortedRegions"} ELSE {}

\* the namespace parse_args returns
parse_args(a) ==
    [ command                 |-> a.command,
      beforeRegionStartLength |-> Opt(a.beforeRegionStartLength, DefaultBefore(a.command)),
      afterRegionStartLength  |-> Opt(a.afterRegionStartLength, DefaultAfter(a.command)),
      regionBodyLength        |-> Opt(a.regionBodyLength, DefaultBody(a.command)),
      unscaled5prime          |-> Opt(a.unscaled5prime, DefaultUnscaled),
      unscaled3prime          |-> Opt(a.unscaled3prime, DefaultUnscaled),
      binSize                 |-> Opt(a.binSize, DefaultBinSize),
      referencePoint          |-> IF a.command = "reference-point"
                                  THEN Opt(a.referencePoint, DefaultReferencePoint)
                                  ELSE "unset",
      nanAfterEnd             |-> a.command = "reference-point" /\ a.nanAfterEnd,
      sortRegions             |-> Opt(a.sortRegions, DefaultSortRegions),
      sortUsing               |-> Opt(a.sortUsing, DefaultSortUsing),
      sortUsingSamples        |-> a.sortUsingSamples,
      quiet                   |-> a.quiet,
      verbose                 |-> a.verbose,
      averageTypeBins         |-> "mean",
      missingDataAsZero       |-> FALSE,
      minThreshold            |-> "None",
      maxThreshold            |-> "None",
      scale                   |-> 1,
      skipZeros               |-> a.skipZeros,
      numberOfProcessors      |-> 1,
      outFileName             |-> a.outFileName,
      outFileNameMatrix       |-> a.outFileNameMatrix,
      outFileSortedRegions    |-> a.outFileSortedRegions ]

Abs(n) == IF n < 0 THEN -n ELSE n

\* process_args, lines 355-356
QuietVerbose(a) == IF a.quiet THEN [a EXCEPT !.verbose = FALSE] ELSE a

\* the second test left out: only the upstream length is made positive
PositiveLengths_BeforeOnly(a) ==
    [a EXCEPT !.beforeRegionStartLength = Abs(@)]

\* process_args, lines 358-364
PositiveLengths(a) ==
    [a EXCEPT !.beforeRegionStartLength = Abs(@),
              !.afterRegionStartLength = Abs(@)]

\* process_args, lines 366-368
ModeAttributes(a) ==
    IF a.command = "scale-regions"
    THEN [a EXCEPT !.nanAfterEnd = FALSE, !.referencePoint = "None"]
    ELSE a

\* the check placed in the scale-regions branch instead
BothFlanksZero_WrongMode(a) ==
    /\ a.command = "scale-regions"
    /\ a.beforeRegionStartLength = 0
    /\ a.afterRegionStartLength = 0

\* process_args, lines 369-374: the condition of the sys.exit
BothFlanksZero(a) ==
    /\ a.command = "reference-point"
    /\ a.beforeRegionStartLength = 0
    /\ a.afterRegionStartLength = 0

\* the namespace process_args returns
process_args(a) == ModeAttributes(PositiveLengths(QuietVerbose(a)))

\* main, lines 383-401
BuildParameters(a) ==
    ( "upstream" :> a.beforeRegionStartLength ) @@
    ( "downstream" :> a.afterRegionStartLength ) @@
    ( "body" :> a.regionBodyLength ) @@
    ( "bin size" :> a.binSize ) @@
    ( "ref point" :> a.referencePoint ) @@
    ( "verbose" :> a.verbose ) @@
    ( "bin avg type" :> a.averageTypeBins ) @@
    ( "missing data as zero" :> a.missingDataAsZero ) @@
    ( "min threshold" :> a.minThreshold ) @@
    ( "max threshold" :> a.maxThreshold ) @@
    ( "scale" :> a.scale ) @@
    ( "skip zeros" :> a.skipZeros ) @@
    ( "nan after end" :> a.nanAfterEnd ) @@
    ( "proc number" :> a.numberOfProcessors ) @@
    ( "sort regions" :> a.sortRegions ) @@
    ( "sort using" :> a.sortUsing ) @@
    ( "unscaled 5 prime" :> a.unscaled5prime ) @@
    ( "unscaled 3 prime" :> a.unscaled3prime )

----------------------------------------------------------------------------
(* Region files and the heatmapper engine *)

\* the regions of the region files (-R), in input order
InputRegions == [i \in 1..MaxRegions |-> i]

\* two region files: the first holds regions 1..split, the second the rest
GroupLabels == <<"genes.bed", "peaks.bed">>
GroupOf(i) == IF i <= env.split THEN 1 ELSE 2

\* score of region i in sample s (one bin per sample) and the region's length
ScoreOf(i, s) == ((i * s) + (i \div 2)) % 3
LengthOf(i) == 10 * (1 + (i % 2))

\* the rows of group g that survive blacklist and filters, in processing order
ProcessedRows(g) ==
    LET Kept(i) == GroupOf(i) = g /\ i \in env.survive
    IN  SelectSeq(env.order, Kept)

\* heatmapper.computeMatrix: one row per surviving region, group after group
computeMatrix ==
    [ rows             |-> ProcessedRows(1) \o ProcessedRows(2),
      group_labels     |-> GroupLabels,
      group_boundaries |-> <<0, Len(ProcessedRows(1)),
                             Len(ProcessedRows(1)) + Len(ProcessedRows(2))>> ]

\* hm.matrix.get_num_samples()
get_num_samples == NumSamples

\* the rows of group g of a matrix
GroupRows(m, g) ==
    SubSeq(m.rows, m.group_boundaries[g] + 1, m.group_boundaries[g + 1])

RECURSIVE SumSeq(_)
SumSeq(s) == IF s = <<>> THEN 0 ELSE s[1] + SumSeq(Tail(s))

MaxSeq(s) == CHOOSE x \in {s[k] : k \in 1..Len(s)} : \A k \in 1..Len(s) : s[k] <= x
MinSeq(s) == CHOOSE x \in {s[k] : k \in 1..Len(s)} : \A k \in 1..Len(s) : s[k] >= x

\* means are kept exact: every statistic is scaled by a multiple of every
\* possible number of values
RECURSIVE Factorial(_)
Factorial(n) == IF n <= 1 THEN 1 ELSE n * Factorial(n - 1)
MeanScale == Factorial(NumSamples + 1)

\* the samples a statistic is computed over: all of them for an empty list
SamplesUsed(sample_list) ==
    IF sample_list = <<>> THEN [k \in 1..NumSamples |-> k - 1] ELSE sample_list

\* the value a row is sorted by (scaled by MeanScale)
RowStatistic(i, sort_using, sample_list) ==
    LET used   == SamplesUsed(sample_list)
        values == [k \in 1..Len(used) |-> ScoreOf(i, used[k] + 1)]
    IN  CASE sort_using = "region_length" -> LengthOf(i) * MeanScale
          [] sort_using = "sum"  -> SumSeq(values) * MeanScale
          [] sort_using = "max"  -> MaxSeq(values) * MeanScale
          [] sort_using = "min"  -> MinSeq(values) * MeanScale
          [] OTHER               -> (SumSeq(values) * MeanScale) \div Len(values)

\* stable sort of rows by key, ascending or descending: ties keep their order
StableSort(rows, key, descending) ==
    LET n == Len(rows)
        Before(j, k) ==
            \/ (IF descending THEN key[rows[j]] > key[rows[k]]
                              ELSE key[rows[j]] < key[rows[k]])
            \/ (key[rows[j]] = key[rows[k]] /\ j < k)
        Rank(k) == Cardinality({j \in 1..n : Before(j, k)}) + 1
    IN  [p \in 1..n |-> rows[CHOOSE k \in 1..n : Rank(k) = p]]

\* hm.matrix.sort_groups: every group sorted on its own, boundaries untouched
sort_groups(m, sort_using, sort_method, sample_list) ==
    LET key == [i \in 1..MaxRegions |-> RowStatistic(i, sort_using, sample_list)]
        Sorted(g) == StableSort(GroupRows(m, g), key, sort_method = "descend")
    IN  [m EXCEPT !.rows = Sorted(1) \o Sorted(2)]

\* computeMatrixOperations.sortMatrix: the surviving rows re-matched against
\* the region files, group after group, using the labels and boundaries
\* stored in hm.parameters
sortMatrix(m, params) ==
    LET pm == [m EXCEPT !.group_labels = params["group_labels"],
                        !.group_boundaries = params["group_boundaries"]]
        position == [i \in 1..MaxRegions |->
                        CHOOSE k \in 1..MaxRegions : InputRegions[k] = i]
        Matched(g) == StableSort(GroupRows(pm, g), position, FALSE)
    IN  [pm EXCEPT !.rows = Matched(1) \o Matched(2)]

\* the lower limit tested with >= as for a zero-based index
ValidSample_ZeroAllowed(i) == i >= 0 /\ i <= get_num_samples

\* main, lines 409-414: the loop that validates --sortUsingSamples
ValidSample(i) == i > 0 /\ i <= get_num_samples

SamplesValid(a) ==
    Given(a.sortUsingSamples) =>
        \A k \in 1..Len(a.sortUsingSamples[1]) : ValidSample(a.sortUsingSamples[1][k])

\* main, lines 408-412: the zero-based list handed to sort_groups
ZeroBasedSamples(a) ==
    IF Given(a.sortUsingSamples)
    THEN [k \in 1..Len(a.sortUsingSamples[1]) |-> a.sortUsingSamples[1][k] - 1]
    ELSE <<>>

\* the elif branch for keep left out
SortBranch_KeepIgnored(a) ==
    IF a.sortRegions \notin {"no", "keep"} THEN "sort_groups" ELSE "none"

\* "in" written for "not in" at line 407
SortBranch_Inverted(a) ==
    IF a.sortRegions \in {"no", "keep"} THEN "sort_groups"
    ELSE IF a.sortRegions = "keep" THEN "sortMatrix"
    ELSE "none"

\* main, lines 407 and 418: which reordering runs after the computation
SortBranch(a) ==
    IF a.sortRegions \notin {"no", "keep"} THEN "sort_groups"
    ELSE IF a.sortRegions = "keep" THEN "sortMatrix"
    ELSE "none"

\* a third key stored along with the two
KeepKeys_ExtraKey(m) ==
    ( "group_labels" :> m.group_labels ) @@
    ( "group_boundaries" :> m.group_boundaries ) @@
    ( "sample_boundaries" :> m.group_boundaries )

\* main, lines 419-420: the keys added to hm.parameters in keep mode
KeepKeys(m) ==
    ( "group_labels" :> m.group_labels ) @@
    ( "group_boundaries" :> m.group_boundaries )

\* line 425 testing the container's file name
WritesValues_WrongOption(a) == Given(a.outFileName)

\* main, lines 425 and 428: is the optional export written
WritesValues(a) == Given(a.outFileNameMatrix)
WritesRegions(a) == Given(a.outFileSortedRegions)

----------------------------------------------------------------------------
(* The steps of main() *)

\* the process ends: sys.exit / exit / an uncaught exception / argparse's error
Exit(status, text) ==
    /\ pc' = "exit"
    /\ exit_status' = status
    /\ message' = text

\* an engine call raises when the world makes it fail
Fails(op) == env.failAt = op

\* line 349, parse_args accepts the command line
ParseArguments ==
    /\ pc = "start"
    /\ argv.command \in Commands
    /\ ArgumentsAccepted(argv)
    /\ args' = parse_args(argv)
    /\ files' = [t \in Targets |->
                    IF t \in OpenedWhileParsing(argv) THEN "truncated" ELSE files[t]]
    /\ pc' = "parsed"
    /\ UNCHANGED <<argv, env, sort_args, parameters, built, matrix, computed, saved, calls,
                   exit_status, message>>

\* line 349, a type= conversion raises: argparse prints the usage and exits 2
ArgumentError ==
    /\ pc = "start"
    /\ argv.command \in Commands
    /\ ~ArgumentsAccepted(argv)
    /\ Exit(2, "usage")
    /\ UNCHANGED <<argv, env, sort_args, args, parameters, built, matrix, computed, files,
                   saved, calls>>

\* lines 351-353, no argument at all: the help is printed, sys.exit()
HelpExit ==
    /\ pc = "start"
    /\ argv.command = "none"
    /\ Exit(0, "help")
    /\ UNCHANGED <<argv, env, sort_args, args, parameters, built, matrix, computed, files,
                   saved, calls>>

\* lines 355-376, process_args returns the namespace
ProcessArgs ==
    /\ pc = "parsed"
    /\ ~BothFlanksZero(PositiveLengths(QuietVerbose(args)))
    /\ args' = process_args(args)
    /\ pc' = "processed"
    /\ UNCHANGED <<argv, env, sort_args, parameters, built, matrix, computed, files, saved,
                   calls, exit_status, message>>

\* lines 369-374, reference-point with both flanks 0: sys.exit(message)
ExitBothFlanksZero ==
    /\ pc = "parsed"
    /\ BothFlanksZero(PositiveLengths(QuietVerbose(args)))
    /\ args' = PositiveLengths(QuietVerbose(args))
    /\ Exit(1, "both flanks zero")
    /\ UNCHANGED <<argv, env, sort_args, parameters, built, matrix, computed, files, saved,
                   calls>>

\* lines 383-403, the parameter dictionary is built
Parameters ==
    /\ pc = "processed"
    /\ parameters' = BuildParameters(args)
    /\ built' = BuildParameters(args)
    /\ pc' = "built"
    /\ UNCHANGED <<argv, env, sort_args, args, matrix, computed, files, saved, calls,
                   exit_status, message>>

\* line 406, hm.computeMatrix(...); hm.parameters is the dictionary passed
ComputeMatrix ==
    /\ pc = "built"
    /\ calls' = Append(calls, "computeMatrix")
    /\ IF Fails("computeMatrix")
       THEN /\ Exit(1, "traceback")
            /\ UNCHANGED <<matrix, computed>>
       ELSE /\ matrix' = computeMatrix
            /\ computed' = computeMatrix
            /\ pc' = "computed"
            /\ UNCHANGED <<exit_status, message>>
    /\ UNCHANGED <<argv, env, sort_args, args, parameters, built, files, saved>>

\* lines 407-417, ascend/descend with a valid sample list: sort_groups
SortGroups ==
    /\ pc = "computed"
    /\ SortBranch(args) = "sort_groups"
    /\ SamplesValid(args)
    /\ calls' = Append(calls, "sort_groups")
    /\ sort_args' = Append(sort_args, [ sort_using  |-> args.sortUsing,
                                        sort_method |-> args.sortRegions,
                                        sample_list |-> ZeroBasedSamples(args) ])
    /\ matrix' = sort_groups(matrix, args.sortUsing, args.sortRegions,
                             ZeroBasedSamples(args))
    /\ pc' = "ordered"
    /\ UNCHANGED <<argv, env, args, parameters, built, computed, files, saved,
                   exit_status, message>>

\* line 414, a --sortUsingSamples value outside 1..num_samples: exit(message)
ExitSortUsingSamples ==
    /\ pc = "computed"
    /\ SortBranch(args) = "sort_groups"
    /\ ~SamplesValid(args)
    /\ Exit(1, "invalid sortUsingSamples")
    /\ UNCHANGED <<argv, env, sort_args, args, parameters, built, matrix, computed, files,
                   saved, calls>>

\* lines 418-421, keep: labels and boundaries stored, cmo.sortMatrix
KeepInputOrder ==
    /\ pc = "computed"
    /\ SortBranch(args) = "sortMatrix"
    /\ parameters' = KeepKeys(matrix) @@ parameters
    /\ calls' = Append(calls, "sortMatrix")
    /\ matrix' = sortMatrix(matrix, parameters')
    /\ pc' = "ordered"
    /\ UNCHANGED <<argv, env, sort_args, args, built, computed, files, saved, exit_status,
                   message>>

\* lines 407-421, no: neither branch is taken
NoSort ==
    /\ pc = "computed"
    /\ SortBranch(args) = "none"
    /\ pc' = "ordered"
    /\ UNCHANGED <<argv, env, sort_args, args, parameters, built, matrix, computed, files,
                   saved, calls, exit_status, message>>

\* an engine save: the target holds the matrix rows, or the call raises
Save(op, target, next) ==
    /\ calls' = Append(calls, op)
    /\ IF Fails(op)
       THEN /\ Exit(1, "traceback")
            /\ UNCHANGED <<files, saved>>
       ELSE /\ files' = [files EXCEPT ![target] = "written"]
            /\ saved' = [saved EXCEPT ![target] = matrix.rows]
            /\ pc' = next
            /\ exit_status' = IF next = "done" THEN 0 ELSE exit_status
            /\ UNCHANGED message

\* a save that was not requested
Skip(next) ==
    /\ pc' = next
    /\ exit_status' = IF next = "done" THEN 0 ELSE exit_status
    /\ UNCHANGED <<files, saved, calls, message>>

\* line 423, hm.save_matrix(args.outFileName)
SaveMatrix ==
    /\ pc = "ordered"
    /\ Save("save_matrix", "outFileName", "saved_matrix")
    /\ UNCHANGED <<argv, env, sort_args, args, parameters, built, matrix, computed>>

\* lines 425-426, hm.save_matrix_values(args.outFileNameMatrix)
SaveMatrixValues ==
    /\ pc = "saved_matrix"
    /\ IF WritesValues(args)
       THEN Save("save_matrix_values", "outFileNameMatrix", "saved_values")
       ELSE Skip("saved_values")
    /\ UNCHANGED <<argv, env, sort_args, args, parameters, built, matrix, computed>>

\* lines 428-429, hm.save_BED(args.outFileSortedRegions); main returns
SaveBED ==
    /\ pc = "saved_values"
    /\ IF WritesRegions(args)
       THEN Save("save_BED", "outFileSortedRegions", "done")
       ELSE Skip("done")
    /\ UNCHANGED <<argv, env, sort_args, args, parameters, built, matrix, computed>>

Next ==
    \/ ParseArguments
    \/ ArgumentError
    \/ HelpExit
    \/ ProcessArgs
    \/ ExitBothFlanksZero
    \/ Parameters
    \/ ComputeMatrix
    \/ SortGroups
    \/ ExitSortUsingSamples
    \/ KeepInputOrder
    \/ NoSort
    \/ SaveMatrix
    \/ SaveMatrixValues
    \/ SaveBED

----------------------------------------------------------------------------
(* Runs: the command lines and the worlds they are run in *)

\* computeMatrix scale-regions -S a.bw b.bw -R genes.bed peaks.bed -o out.gz
BaseArgv ==
    [ command                 |-> "scale-regions",
      beforeRegionStartLength |-> <<>>,
      afterRegionStartLength  |-> <<>>,
      regionBodyLength        |-> <<>>,
      unscaled5prime          |-> <<>>,
      unscaled3prime          |-> <<>>,
      binSize                 |-> <<>>,
      referencePoint          |-> <<>>,
      nanAfterEnd             |-> FALSE,
      sortRegions             |-> <<>>,
      sortUsing               |-> <<>>,
      sortUsingSamples        |-> <<>>,
      quiet                   |-> FALSE,
      verbose                 |-> FALSE,
      skipZeros               |-> FALSE,
      outFileName             |-> <<"out.gz">>,
      outFileNameMatrix       |-> <<>>,
      outFileSortedRegions    |-> <<>> ]

\* every region survives, is processed in input order, nothing fails
BaseEnv ==
    [ writable |-> [t \in Targets |-> TRUE],
      failAt   |-> "none",
      split    |-> 1,
      survive  |-> 1..MaxRegions,
      order    |-> InputRegions ]

Lengths == {<<>>, <<-10>>, <<0>>, <<10>>}
SortModes == {<<>>, <<"no">>, <<"keep">>, <<"ascend">>, <<"descend">>}
SampleLists == {<<>>, <<<<1>>>>, <<<<NumSamples, 1>>>>, <<<<NumSamples + 1>>>>, <<<<0>>>>}
EngineCalls == {"computeMatrix", "save_matrix", "save_matrix_values", "save_BED"}
Orders == {o \in [1..MaxRegions -> 1..MaxRegions] :
              \A i, j \in 1..MaxRegions : i # j => o[i] # o[j]}

\* a few runs that take every path of main()
CoreArgvs ==
    {[BaseArgv EXCEPT !.command = "none"]}
      \cup {[BaseArgv EXCEPT !.sortRegions = s, !.sortUsingSamples = l,
                             !.outFileNameMatrix = <<"values.tab">>,
                             !.outFileSortedRegions = <<"sorted.bed">>] :
               s \in SortModes, l \in {<<>>, <<<<NumSamples + 1>>>>}}
      \cup {[BaseArgv EXCEPT !.command = "reference-point",
                             !.beforeRegionStartLength = <<0>>,
                             !.afterRegionStartLength = <<0>>]}

CoreEnvs ==
    {BaseEnv, [BaseEnv EXCEPT !.writable["outFileName"] = FALSE]}

\* the command lines that draw every option from the set given for it
\* (--referencePoint and --nanAfterEnd exist in reference-point mode only)
Argvs(befores, afters, bodies, unscaled, bins, refs, nans, sorts, usings, lists, flags, values, beds) ==
    {a \in [ command                 : Commands,
             beforeRegionStartLength : befores,
             afterRegionStartLength  : afters,
             regionBodyLength        : bodies,
             unscaled5prime          : unscaled,
             unscaled3prime          : unscaled,
             binSize                 : bins,
             referencePoint          : refs,
             nanAfterEnd             : nans,
             sortRegions             : sorts,
             sortUsing               : usings,
             sortUsingSamples        : lists,
             quiet                   : flags,
             verbose                 : flags,
             skipZeros               : {FALSE},
             outFileName             : {<<"out.gz">>},
             outFileNameMatrix       : values,
             outFileSortedRegions    : beds ] :
        a.command = "scale-regions" => (a.referencePoint = <<>> /\ ~a.nanAfterEnd)}

\* command lines that vary the configuration options
ConfigArgvs ==
    Argvs(Lengths, Lengths, {<<>>, <<20>>}, {<<>>, <<10>>}, {<<>>, <<0>>, <<-10>>},
          {<<>>, <<"TES">>}, BOOLEAN, {<<>>, <<"no">>, <<"descend">>}, {<<>>},
          {<<>>}, BOOLEAN, {<<"values.tab">>}, {<<"sorted.bed">>})

ConfigEnvs ==
    {BaseEnv}

\* command lines that vary the requested outputs and the ways a run can fail
OutputArgvs ==
    Argvs({<<>>, <<0>>}, {<<>>, <<0>>}, {<<>>}, {<<>>}, {<<>>, <<0>>},
          {<<>>}, {FALSE}, {<<>>, <<"no">>, <<"descend">>}, {<<>>},
          {<<>>, <<<<1>>>>, <<<<NumSamples + 1>>>>}, {FALSE},
          {<<>>, <<"values.tab">>}, {<<>>, <<"sorted.bed">>})

OutputEnvs ==
    {[BaseEnv EXCEPT !.writable = w, !.failAt = f, !.survive = s] :
        w \in [Targets -> BOOLEAN], f \in EngineCalls \cup {"none"},
        s \in {1..MaxRegions, 2..MaxRegions}}

\* command lines that vary the sorting options, on every computed matrix
SortArgvs ==
    Argvs({<<>>}, {<<>>}, {<<>>}, {<<>>}, {<<>>}, {<<>>}, {FALSE},
          SortModes, {<<>>, <<"max">>, <<"region_length">>}, SampleLists,
          {FALSE}, {<<"values.tab">>}, {<<"sorted.bed">>})

SortEnvs ==
    {[BaseEnv EXCEPT !.split = k, !.survive = s, !.order = o] :
        k \in 1..(MaxRegions - 1), s \in SUBSET (1..MaxRegions), o \in Orders}

\* the state before main() runs
InitRun(argvs, envs) ==
    /\ \/ argv \in argvs /\ env \in envs
       \/ argv \in CoreArgvs /\ env \in CoreEnvs
    /\ pc = "start"
    /\ args = [command |-> "unparsed"]
    /\ parameters = <<>>
    /\ built = <<>>
    /\ matrix = [rows |-> <<>>, group_labels |-> <<>>, group_boundaries |-> <<>>]
    /\ computed = [rows |-> <<>>, group_labels |-> <<>>, group_boundaries |-> <<>>]
    /\ files = [t \in Targets |-> "untouched"]
    /\ saved = [t \in Targets |-> <<>>]
    /\ calls = <<>>
    /\ sort_args = <<>>
    /\ exit_status = -1
    /\ message = ""

Init == InitRun(ConfigArgvs, ConfigEnvs)
InitOutput == InitRun(OutputArgvs, OutputEnvs)
InitSort == InitRun(SortArgvs, SortEnvs)

\* runs over the configuration options
Spec == Init /\ [][Next]_vars
\* runs over the requested outputs and the failures
SpecOutput == InitOutput /\ [][Next]_vars
\* runs over the sorting options and the computed matrices
SpecSort == InitSort /\ [][Next]_vars

----------------------------------------------------------------------------
(* Properties *)

\* the values argparse hands to process_args for the two flank options
FlankBefore == Opt(argv.beforeRegionStartLength, DefaultBefore(argv.command))
FlankAfter == Opt(argv.afterRegionStartLength, DefaultAfter(argv.command))

\* C1: a reference-point run whose upstream and downstream lengths are both 0
\* never gets past process_args: no engine call is made, no sort or save step
\* is reached, and once the command line is parsed the run ends with status 1
\* and the both-flanks-zero message; every such run that has ended has a
\* non-zero status and a message.  A scale-regions run with the same two
\* values is not stopped by process_args.
C1_BothFlanksZeroRejected ==
    /\ (argv.command = "reference-point" /\ FlankBefore = 0 /\ FlankAfter = 0) =>
          /\ calls = <<>>
          /\ pc \in {"start", "parsed", "exit"}
          /\ \A t \in Targets : saved[t] = <<>>
          /\ pc = "exit" => exit_status # 0 /\ message # ""
          /\ (pc = "exit" /\ args.command # "unparsed") =>
                exit_status = 1 /\ message = "both flanks zero"
    /\ (argv.command = "scale-regions" /\ FlankBefore = 0 /\ FlankAfter = 0) =>
          /\ message # "both flanks zero"
          /\ pc = "parsed" => ~BothFlanksZero(PositiveLengths(QuietVerbose(args)))
          /\ (pc = "exit" /\ args.command # "unparsed") => calls # <<>>

\* C1 witness: a reference-point run given -b 0 -a 0 has ended in process_args
C1_Witness ==
    /\ argv.command = "reference-point"
    /\ argv.beforeRegionStartLength = <<0>>
    /\ argv.afterRegionStartLength = <<0>>
    /\ pc = "exit"
    /\ message = "both flanks zero"
    /\ calls = <<>>

\* positions of main() that a run reaches only through a fatal error
Failed == pc = "exit" /\ exit_status # 0

\* C2: on every fatal error of a run no output target has been written,
\* created or truncated, whatever outputs were requested.
C2_NoOutputTouchedOnError ==
    Failed => \A t \in Targets : files[t] = "untouched"

\* C3: when a requested output target is not writable the run ends in
\* argument parsing with a usage error: the namespace is never returned and
\* no engine call is made.
C3_WritabilityCheckedWhileParsing ==
    (argv.command \in Commands /\ \E t \in Requested(argv) : ~env.writable[t]) =>
        /\ args.command = "unparsed"
        /\ pc \in {"start", "exit"}
        /\ calls = <<>>
        /\ pc = "exit" => exit_status = 2 /\ message = "usage"

\* C3 witness: only the sorted-region export is not writable and the run has
\* ended with the usage error
C3_Witness ==
    /\ Given(argv.outFileSortedRegions)
    /\ ~env.writable["outFileSortedRegions"]
    /\ env.writable["outFileName"]
    /\ Given(argv.outFileNameMatrix) => env.writable["outFileNameMatrix"]
    /\ pc = "exit"
    /\ message = "usage"

\* the surviving regions in the order of the region files
SurvivorsInInputOrder ==
    LET Survives(i) == i \in env.survive
    IN  SelectSeq(InputRegions, Survives)

\* positions of main() after the sorting step
AfterSorting == {"ordered", "saved_matrix", "saved_values", "done"}

\* the engine calls that reorder rows
Reorderings == {"sort_groups", "sortMatrix"}

\* the engine calls made so far that reorder rows
ReorderingsDone == SelectSeq(calls, LAMBDA c : c \in Reorderings)

\* C4: with sortRegions=keep the matrix that is saved holds the surviving rows
\* in the order of the region files, re-matched once with the labels and
\* boundaries of the computed matrix; with sortRegions=no no reordering call is
\* made and the saved rows are the rows as the computation left them.
C4_KeepAndNoRowOrder ==
    /\ (args.command # "unparsed" /\ args.sortRegions = "keep" /\ pc \in AfterSorting) =>
          /\ matrix.rows = SurvivorsInInputOrder
          /\ ReorderingsDone = <<"sortMatrix">>
          /\ parameters["group_labels"] = computed.group_labels
          /\ parameters["group_boundaries"] = computed.group_boundaries
          /\ files["outFileName"] = "written" =>
                saved["outFileName"] = SurvivorsInInputOrder
    /\ (args.command # "unparsed" /\ args.sortRegions = "no" /\ pc \in AfterSorting) =>
          /\ matrix = computed
          /\ ReorderingsDone = <<>>
          /\ files["outFileName"] = "written" => saved["outFileName"] = computed.rows

\* C4 witness: a keep run saved rows that the computation had left in an
\* order other than the order of the region files
C4_Witness ==
    /\ args.command # "unparsed"
    /\ args.sortRegions = "keep"
    /\ files["outFileName"] = "written"
    /\ computed.rows # SurvivorsInInputOrder
    /\ Len(computed.rows) = MaxRegions

\* the set of rows of group g of a matrix
GroupSet(m, g) == {GroupRows(m, g)[k] : k \in 1..Len(GroupRows(m, g))}

\* the statistic main asks sort_groups to sort by: --sortUsing over the
\* samples of --sortUsingSamples, all samples when the option is absent
ChosenStatistic(i) ==
    RowStatistic(i, Opt(argv.sortUsing, "mean"),
                 IF Given(argv.sortUsingSamples)
                 THEN [k \in 1..Len(argv.sortUsingSamples[1]) |->
                          argv.sortUsingSamples[1][k] - 1]
                 ELSE <<>>)

\* rows p and p+1 of every group are in the order the sort method asks for
SortedWithinGroups(m, method) ==
    \A g \in 1..Len(m.group_labels) :
        \A p \in 1..(Len(GroupRows(m, g)) - 1) :
            IF method = "descend"
            THEN ChosenStatistic(GroupRows(m, g)[p]) >= ChosenStatistic(GroupRows(m, g)[p + 1])
            ELSE ChosenStatistic(GroupRows(m, g)[p]) <= ChosenStatistic(GroupRows(m, g)[p + 1])

\* C5: with sortRegions=ascend or descend, after the sorting step every group
\* is sorted by the chosen statistic, the group labels, the group boundaries
\* and the set of rows of every group are those of the computed matrix, and
\* exactly one reordering call, sort_groups, was made after the computation.
C5_SortStaysWithinGroups ==
    (args.command # "unparsed" /\ args.sortRegions \in {"ascend", "descend"}
        /\ pc \in AfterSorting) =>
        /\ SortedWithinGroups(matrix, args.sortRegions)
        /\ matrix.group_labels = computed.group_labels
        /\ matrix.group_boundaries = computed.group_boundaries
        /\ \A g \in 1..Len(computed.group_labels) :
              GroupSet(matrix, g) = GroupSet(computed, g)
        /\ ReorderingsDone = <<"sort_groups">>
        /\ calls[1] = "computeMatrix" /\ calls[2] = "sort_groups"
        /\ files["outFileName"] = "written" => saved["outFileName"] = matrix.rows

\* C5 witness: a descending sort changed the order of the rows of a full matrix
\* that was then saved
C5_Witness ==
    /\ args.command # "unparsed"
    /\ args.sortRegions = "descend"
    /\ files["outFileName"] = "written"
    /\ Len(matrix.rows) = MaxRegions
    /\ matrix.rows # computed.rows

\* the save calls, in the order main makes them
SaveOrder == <<"save_matrix", "save_matrix_values", "save_BED">>
SaveCalls == SelectSeq(calls, LAMBDA c : c \in {SaveOrder[k] : k \in 1..3})

\* C6: the value export and the region export are written only when
\* requested; every target written holds the rows of the one matrix state
\* left by the sorting step; the saves are made after the sorting step in the
\* order container, value export, region export; a run that ends normally has
\* written every requested target.
C6_ExportsShareRowOrder ==
    /\ files["outFileNameMatrix"] = "written" => Given(argv.outFileNameMatrix)
    /\ files["outFileSortedRegions"] = "written" => Given(argv.outFileSortedRegions)
    /\ \A t \in Targets : files[t] = "written" =>
          /\ files["outFileName"] = "written"
          /\ saved[t] = saved["outFileName"]
          /\ saved[t] = matrix.rows
    /\ \A i, j \in 1..Len(calls) :
          (i < j /\ calls[i] \in {SaveOrder[k] : k \in 1..3}) =>
              \E ki, kj \in 1..3 : ki < kj /\ calls[i] = SaveOrder[ki] /\ calls[j] = SaveOrder[kj]
    /\ SaveCalls # <<>> => pc \in AfterSorting \cup {"exit"}
    /\ pc = "done" =>
          \A t \in Targets :
              files[t] = (IF t \in Requested(argv) THEN "written" ELSE "untouched")

\* C6 witness: a run that sorted its rows has written all three targets
C6_Witness ==
    /\ pc = "done"
    /\ \A t \in Targets : files[t] = "written"
    /\ "sort_groups" \in {calls[k] : k \in 1..Len(calls)}
    /\ matrix.rows # computed.rows

\* the engine calls made so far, as a set
Called == {calls[k] : k \in 1..Len(calls)}

\* C7 as stated: once the parameters are built, the parameter set of the
\* engine has exactly the keys and values it was built with for the rest of
\* the run.
C7_ParametersNeverChange ==
    DOMAIN built # {} => parameters = built

\* C7 amended: once the parameters are built, no value taken from the command
\* line changes and no key is removed, neither in the namespace nor in the
\* parameter set; main adds exactly the keys group_labels and group_boundaries
\* to the parameter set, in keep mode, after the matrix computation, and adds
\* no key in the other modes.
C7_OnlyKeepAddsKeys ==
    DOMAIN built # {} =>
        /\ built = BuildParameters(args)
        /\ \A k \in DOMAIN built : k \in DOMAIN parameters /\ parameters[k] = built[k]
        /\ DOMAIN parameters \ DOMAIN built =
              (IF "sortMatrix" \in Called THEN {"group_labels", "group_boundaries"} ELSE {})
        /\ "sortMatrix" \in Called =>
              args.sortRegions = "keep" /\ calls[1] = "computeMatrix"

\* C7 witness: a keep run has ended normally with the two keys added
C7_Witness ==
    /\ pc = "done"
    /\ "sortMatrix" \in Called
    /\ DOMAIN parameters = DOMAIN built \cup {"group_labels", "group_boundaries"}
    /\ DOMAIN parameters # DOMAIN built

\* C8: a run whose bin size is not positive never invokes the matrix
\* computation.
C8_NonPositiveBinSizeRejected ==
    (argv.command \in Commands /\ Opt(argv.binSize, DefaultBinSize) <= 0) =>
        "computeMatrix" \notin Called

\* C9: in reference-point mode the parameters handed to the engine have body,
\* unscaled 5 prime and unscaled 3 prime equal to 0, whatever the command line.
C9_BodyForcedToZero ==
    (argv.command = "reference-point" /\ "computeMatrix" \in Called) =>
        /\ parameters["body"] = 0
        /\ parameters["unscaled 5 prime"] = 0
        /\ parameters["unscaled 3 prime"] = 0

\* C10: without --sortRegions no reordering call is made between the matrix
\* computation and the save, and the saved rows are in the order the
\* computation left them.
C10_DefaultIsUnsorted ==
    (argv.command \in Commands /\ ~Given(argv.sortRegions)) =>
        /\ ReorderingsDone = <<>>
        /\ files["outFileName"] = "written" => saved["outFileName"] = computed.rows

\* the values of --sortUsingSamples as given, none when the option is absent
GivenSamples ==
    IF Given(argv.sortUsingSamples) THEN argv.sortUsingSamples[1] ELSE <<>>

\* every given value is a sample number of the computed matrix
GivenSamplesInRange ==
    \A k \in 1..Len(GivenSamples) : 1 <= GivenSamples[k] /\ GivenSamples[k] <= NumSamples

\* the run sorts: the namespace is parsed and sortRegions is ascend or descend
Sorting == args.command # "unparsed" /\ args.sortRegions \in {"ascend", "descend"}

\* C11: with sortRegions=ascend or descend, when every --sortUsingSamples
\* value is in 1..num_samples the one sort_groups call receives the values
\* minus one in the order given (the empty list when the option is absent),
\* with the chosen statistic and method; when a value is out of range the run
\* ends with status 1 and the error message after the computation, with no
\* sort_groups call and no save.  With sortRegions=no or keep the option never
\* ends the run and sort_groups is never called.
C11_SortSamplesValidated ==
    /\ (Sorting /\ GivenSamplesInRange /\ pc \in AfterSorting) =>
          /\ Len(sort_args) = 1
          /\ sort_args[1].sample_list = [k \in 1..Len(GivenSamples) |-> GivenSamples[k] - 1]
          /\ sort_args[1].sort_using = Opt(argv.sortUsing, "mean")
          /\ sort_args[1].sort_method = argv.sortRegions[1]
    /\ (Sorting /\ ~GivenSamplesInRange) =>
          /\ sort_args = <<>>
          /\ "sort_groups" \notin Called
          /\ SaveCalls = <<>>
          /\ \A t \in Targets : files[t] # "written"
          /\ pc \notin AfterSorting
          /\ (pc = "exit" /\ "computeMatrix" \in Called) =>
                exit_status = 1 /\ message = "invalid sortUsingSamples"
    /\ (args.command # "unparsed" /\ args.sortRegions \in {"no", "keep"}) =>
          /\ sort_args = <<>>
          /\ "sort_groups" \notin Called
          /\ message # "invalid sortUsingSamples"
          /\ (pc = "exit" /\ "computeMatrix" \in Called) => SaveCalls # <<>>

\* C11 witness: a sorting run given two valid sample numbers, the larger
\* first, has ended normally after handing both to sort_groups
C11_Witness ==
    /\ Sorting
    /\ GivenSamples = <<NumSamples, 1>>
    /\ pc = "done"
    /\ Len(sort_args) = 1
    /\ sort_args[1].sample_list = <<NumSamples - 1, 0>>

\* C12: once process_args has returned, the upstream and downstream lengths of
\* the namespace are not negative: a negative value given is replaced by its
\* absolute value and any other value is unchanged; a run stopped by the
\* both-flanks-zero check holds the replaced values too; the parameters of
\* every run that reaches the matrix computation have upstream >= 0 and
\* downstream >= 0.
C12_FlankLengthsNotNegative ==
    /\ (args.command # "unparsed" /\ pc # "parsed") =>
          /\ args.beforeRegionStartLength >= 0
          /\ args.afterRegionStartLength >= 0
          /\ args.beforeRegionStartLength =
                (IF FlankBefore < 0 THEN 0 - FlankBefore ELSE FlankBefore)
          /\ args.afterRegionStartLength =
                (IF FlankAfter < 0 THEN 0 - FlankAfter ELSE FlankAfter)
    /\ "computeMatrix" \in Called =>
          /\ parameters["upstream"] >= 0
          /\ parameters["downstream"] >= 0
          /\ parameters["upstream"] = args.beforeRegionStartLength
          /\ parameters["downstream"] = args.afterRegionStartLength

\* C12 witness: a run given two negative lengths has reached the matrix
\* computation with their absolute values
C12_Witness ==
    /\ argv.beforeRegionStartLength = <<-10>>
    /\ argv.afterRegionStartLength = <<-10>>
    /\ "computeMatrix" \in Called
    /\ parameters["upstream"] = 10
    /\ parameters["downstream"] = 10

====
